---- MODULE Spec2Model ----
(***************************************************************************)
(* Hybrid retrieval engine of hackrx-api: the in-memory VectorStore        *)
(* (src/processing/vector_store.py) and the Retriever (src/qa/retriever.py)*)
(*                                                                         *)
(* Conventions.                                                            *)
(*  - A Python str is a sequence of one-character strings, so that lower(),*)
(*    the `in` substring test and the regular expressions are computed.    *)
(*  - Similarities and graph scores are exact rationals scaled by Scale    *)
(*    (1000 = 1.0); fused scores are scaled by Scale * WeightScale.  The   *)
(*    embeddings used have integer norms, so every cosine is exact.        *)
(*  - A Python dict whose iteration order is read is a sequence of         *)
(*    [key, val] pairs in insertion order; other dicts are functions.      *)
(***************************************************************************)
EXTENDS Integers, Sequences, FiniteSets, TLC

VARIABLES documents, chunks, chunk_index, entities, entities_by_type,
          relationships, relationship_index, call, cleared, writer, reader

vars == <<documents, chunks, chunk_index, entities, entities_by_type,
          relationships, relationship_index, call, cleared, writer, reader>>

storeVars == <<documents, chunks, chunk_index, entities, entities_by_type,
               relationships, relationship_index>>

(***************************************************************************)
(* Bounds of the model.                                                    *)
(***************************************************************************)
MaxDocs == 2

MaxTopK == 2

(***************************************************************************)
(* Python strings.                                                         *)
(***************************************************************************)
UpperAlphabet == <<"A","B","C","D","E","F","G","H","I","J","K","L","M","N","O","P","Q","R","S","T","U","V","W","X","Y","Z">>

LowerAlphabet == <<"a","b","c","d","e","f","g","h","i","j","k","l","m","n","o","p","q","r","s","t","u","v","w","x","y","z">>

Range(s) == {s[i] : i \in DOMAIN s}

UpperChars == Range(UpperAlphabet)

LowerChars == Range(LowerAlphabet)

DigitChars == {"0","1","2","3","4","5","6","7","8","9"}

WordChars == UpperChars \cup LowerChars \cup DigitChars \cup {"_"}

SpaceChars == {" "}

LowerChar(c) ==
    IF c \in UpperChars
    THEN LowerAlphabet[CHOOSE i \in DOMAIN UpperAlphabet : UpperAlphabet[i] = c]
    ELSE c

\* str.lower()
Lower(s) == [i \in DOMAIN s |-> LowerChar(s[i])]

\* Python's `sub in s` on strings
Contains(sub, s) ==
    \E i \in 0..(Len(s) - Len(sub)) : SubSeq(s, i + 1, i + Len(sub)) = sub

\* str.isdigit()
IsDigit(s) == Len(s) > 0 /\ \A i \in DOMAIN s : s[i] \in DigitChars

stop_words == {
    <<"w","h","a","t">>, <<"w","h","o">>, <<"w","h","e","r","e">>, <<"w","h","e","n">>,
    <<"w","h","y">>, <<"h","o","w">>, <<"i","s">>, <<"a","r","e">>, <<"w","a","s">>,
    <<"w","e","r","e">>, <<"t","h","e">>, <<"a">>, <<"a","n">>, <<"a","n","d">>, <<"o","r">>,
    <<"b","u","t">>, <<"i","n">>, <<"o","n">>, <<"a","t">>, <<"t","o">>, <<"f","o","r">>,
    <<"o","f">>, <<"w","i","t","h">>, <<"b","y">>, <<"f","r","o","m">>,
    <<"a","b","o","u","t">>, <<"i","n","t","o">>, <<"t","h","r","o","u","g","h">>,
    <<"d","u","r","i","n","g">>, <<"b","e","f","o","r","e">>, <<"a","f","t","e","r">>,
    <<"a","b","o","v","e">>, <<"b","e","l","o","w">>, <<"u","p">>, <<"d","o","w","n">>,
    <<"o","u","t">>, <<"o","f","f">>, <<"o","v","e","r">>, <<"u","n","d","e","r">>,
    <<"a","g","a","i","n">>, <<"f","u","r","t","h","e","r">>, <<"t","h","e","n">>,
    <<"o","n","c","e">>, <<"c","a","n">>, <<"c","o","u","l","d">>, <<"s","h","o","u","l","d">>,
    <<"w","o","u","l","d">>, <<"m","a","y">>, <<"m","i","g","h","t">>, <<"m","u","s","t">>,
    <<"s","h","a","l","l">>, <<"w","i","l","l">>, <<"d","o">>, <<"d","o","e","s">>,
    <<"d","i","d">>, <<"h","a","s">>, <<"h","a","v","e">>, <<"h","a","d">>,
    <<"b","e","e","n">>, <<"b","e","i","n","g">>, <<"g","e","t">>, <<"g","o","t">>
    }

(***************************************************************************)
(* Retriever.extract_query_entities                                        *)
(***************************************************************************)
\* the index of the last character of the maximal run of characters of C
\* that starts at i (i - 1 when s[i] is not in C)
RECURSIVE RunEnd(_, _, _)
RunEnd(s, i, C) ==
    IF i <= Len(s) /\ s[i] \in C THEN RunEnd(s, i + 1, C) ELSE i - 1

\* re.findall(r'\b\w+\b', s): the maximal runs of word characters
RECURSIVE WordTokensFrom(_, _)
WordTokensFrom(s, i) ==
    IF i > Len(s) THEN <<>>
    ELSE IF s[i] \in WordChars
         THEN LET j == RunEnd(s, i, WordChars)
              IN  <<SubSeq(s, i, j)>> \o WordTokensFrom(s, j + 1)
         ELSE WordTokensFrom(s, i + 1)

WordTokens(s) == WordTokensFrom(s, 1)

\* the word filter of the loop over `words`
KeepsWord(word) ==
    Len(word) > 2 /\ word \notin stop_words /\ ~IsDigit(word)

SelectWords(ws) == SelectSeq(ws, KeepsWord)

\* [A-Z][a-z]+ at i, ending on a word boundary: the index of its last
\* character, or 0 when there is no such word at i
CapWordEnd(s, i) ==
    IF i + 1 <= Len(s) /\ s[i] \in UpperChars /\ s[i + 1] \in LowerChars
    THEN LET j == RunEnd(s, i + 1, LowerChars)
         IN  IF j = Len(s) \/ s[j + 1] \notin WordChars THEN j ELSE 0
    ELSE 0

\* (?:\s+[A-Z][a-z]+)* after a word ending at j: the end of the last word
RECURSIVE CapRunEnd(_, _)
CapRunEnd(s, j) ==
    LET k == RunEnd(s, j + 1, SpaceChars)
        e == IF k > j THEN CapWordEnd(s, k + 1) ELSE 0
    IN  IF e > 0 THEN CapRunEnd(s, e) ELSE j

\* re.findall(r'\b[A-Z][a-z]+(?:\s+[A-Z][a-z]+)*\b', s)
RECURSIVE CapitalizedFrom(_, _)
CapitalizedFrom(s, i) ==
    IF i > Len(s) THEN <<>>
    ELSE LET atBoundary == i = 1 \/ s[i - 1] \notin WordChars
             e == IF atBoundary THEN CapWordEnd(s, i) ELSE 0
         IN  IF e > 0
             THEN LET j == CapRunEnd(s, e)
                  IN  <<SubSeq(s, i, j)>> \o CapitalizedFrom(s, j + 1)
             ELSE CapitalizedFrom(s, i + 1)

capitalized_words(s) == CapitalizedFrom(s, 1)

\* the seen-set loop: first occurrences, in order
RECURSIVE UniqueFrom(_, _)
UniqueFrom(s, seen) ==
    IF s = <<>> THEN <<>>
    ELSE IF Head(s) \in seen THEN UniqueFrom(Tail(s), seen)
         ELSE <<Head(s)>> \o UniqueFrom(Tail(s), seen \cup {Head(s)})

\* unique_entities without the seen-set
UniqueEntitiesAll(s) == s

unique_entities(s) == UniqueFrom(s, {})

\* A query is [isStr, s]; a query that is not a str makes query.lower()
\* raise, and the handler returns [].
extract_query_entities(query) ==
    IF ~query.isStr THEN <<>>
    ELSE LET words == WordTokens(Lower(query.s))
             caps  == capitalized_words(query.s)
         IN  unique_entities(SelectWords(words)
                             \o [i \in DOMAIN caps |-> Lower(caps[i])])

(***************************************************************************)
(* Scores.  Scale is 1.0 of a similarity or graph score; a weight is in    *)
(* tenths, so a fused score of 1.0 is Scale * WeightScale.                 *)
(***************************************************************************)
Scale == 10 * 100

WeightScale == 2 * 5

Min(a, b) == IF a <= b THEN a ELSE b

Max(a, b) == IF a >= b THEN a ELSE b

\* Python's s[:k], also for k < 0
Take(s, k) ==
    IF k >= 0 THEN SubSeq(s, 1, Min(k, Len(s)))
    ELSE SubSeq(s, 1, Max(Len(s) + k, 0))

\* Rank with equal keys in reverse order: an unstable sort
RankTiesReversed(keys, i) ==
    1 + Cardinality({j \in DOMAIN keys :
                        \/ keys[j] > keys[i]
                        \/ keys[j] = keys[i] /\ j > i})

\* list.sort(key=..., reverse=True) on the keys of a list: the place the
\* element at i ends at.  The sort is descending and stable: of two elements
\* with equal keys the one that came first stays first.
Rank(keys, i) ==
    1 + Cardinality({j \in DOMAIN keys :
                        \/ keys[j] > keys[i]
                        \/ keys[j] = keys[i] /\ j < i})

SortDescending(s, keys) ==
    [r \in DOMAIN s |-> s[CHOOSE i \in DOMAIN s : Rank(keys, i) = r]]

\* d[k] = v on a dict kept as a function
Put(d, k, v) == [x \in DOMAIN d \cup {k} |-> IF x = k THEN v ELSE d[x]]

\* d.setdefault(k, []).append(v) on a dict kept as a function
PutAppend(d, k, v) == Put(d, k, IF k \in DOMAIN d THEN Append(d[k], v) ELSE <<v>>)

\* the same on a dict kept as a sequence of [key, val] pairs
Keys(a) == {a[i].key : i \in DOMAIN a}

Get(a, k) == a[CHOOSE i \in DOMAIN a : a[i].key = k].val

EnsureKey(a, k) == IF k \in Keys(a) THEN a ELSE Append(a, [key |-> k, val |-> <<>>])

AppendAt(a, k, v) ==
    [i \in DOMAIN a |-> IF a[i].key = k
                        THEN [key |-> k, val |-> Append(a[i].val, v)]
                        ELSE a[i]]

RECURSIVE SumLen(_)
SumLen(a) == IF a = <<>> THEN 0 ELSE Len(Head(a).val) + SumLen(Tail(a))

(***************************************************************************)
(* VectorStore.  A store value S is the record of the seven collections.   *)
(***************************************************************************)
EmptyStore ==
    [documents |-> <<>>, chunks |-> <<>>, chunk_index |-> <<>>,
     entities |-> <<>>, entities_by_type |-> <<>>,
     relationships |-> <<>>, relationship_index |-> <<>>]

Store ==
    [documents |-> documents, chunks |-> chunks, chunk_index |-> chunk_index,
     entities |-> entities, entities_by_type |-> entities_by_type,
     relationships |-> relationships, relationship_index |-> relationship_index]

\* add_document, lines 43-54: the document's metadata
AddMetadata(S, doc_id, doc) ==
    [S EXCEPT !.documents =
        Put(@, doc_id,
            [id |-> doc_id,
             chunk_count |-> Len(doc.chunks),
             entity_count |-> SumLen(doc.entities),
             relationship_count |-> Len(doc.relationships)])]

\* add_document, lines 57-66, one chunk: the append happens before
\* chunk["id"] is read (KeyError when missing) and hashed (TypeError)
AddChunk(S, chunk, doc_id) ==
    LET chunk_with_doc == [chunk EXCEPT !.document_id = doc_id]
        appended == [S EXCEPT !.chunks = Append(@, chunk_with_doc)]
    IN  IF chunk.idKind = "ok"
        THEN [S |-> [appended EXCEPT !.chunk_index = Put(@, chunk.id, chunk_with_doc)],
              ok |-> TRUE]
        ELSE [S |-> appended, ok |-> FALSE]

RECURSIVE AddChunks(_, _, _)
AddChunks(S, cs, doc_id) ==
    IF cs = <<>> THEN [S |-> S, ok |-> TRUE]
    ELSE LET r == AddChunk(S, Head(cs), doc_id)
         IN  IF r.ok THEN AddChunks(r.S, Tail(cs), doc_id) ELSE r

TotalEntities(S) == SumLen(S.entities_by_type)

\* AddEntity that stores the entity in the name index only
AddEntityNameOnly(S, entity_type, entity, doc_id) ==
    IF ~entity.hasName THEN [S |-> S, ok |-> FALSE]
    ELSE [S |-> [S EXCEPT !.entities =
                    PutAppend(@, Lower(entity.name),
                              [entity EXCEPT !.document_id = doc_id,
                                             !.entity_id = TotalEntities(S) + 1])],
          ok |-> TRUE]

\* _add_entities, lines 88-102, one entity: entity["name"] raises KeyError
\* before anything is stored for it
AddEntity(S, entity_type, entity, doc_id) ==
    IF ~entity.hasName THEN [S |-> S, ok |-> FALSE]
    ELSE LET entity_name == Lower(entity.name)
             entity_with_doc == [entity EXCEPT !.document_id = doc_id,
                                               !.entity_id = TotalEntities(S) + 1]
         IN  [S |-> [S EXCEPT !.entities = PutAppend(@, entity_name, entity_with_doc),
                              !.entities_by_type = AppendAt(@, entity_type, entity_with_doc)],
              ok |-> TRUE]

RECURSIVE AddEntityList(_, _, _, _)
AddEntityList(S, entity_type, entity_list, doc_id) ==
    IF entity_list = <<>> THEN [S |-> S, ok |-> TRUE]
    ELSE LET r == AddEntity(S, entity_type, Head(entity_list), doc_id)
         IN  IF r.ok THEN AddEntityList(r.S, entity_type, Tail(entity_list), doc_id)
             ELSE r

\* _add_entities, lines 84-102
RECURSIVE AddEntities(_, _, _)
AddEntities(S, entities_in, doc_id) ==
    IF entities_in = <<>> THEN [S |-> S, ok |-> TRUE]
    ELSE LET entity_type == Head(entities_in).key
             keyed == [S EXCEPT !.entities_by_type = EnsureKey(@, entity_type)]
             r == AddEntityList(keyed, entity_type, Head(entities_in).val, doc_id)
         IN  IF r.ok THEN AddEntities(r.S, Tail(entities_in), doc_id) ELSE r

\* _add_relationships, lines 107-118, one relationship: it is appended to
\* the list before rel["source"] is read (KeyError when missing)
AddRelationship(S, rel, doc_id) ==
    LET rel_with_doc == [rel EXCEPT !.document_id = doc_id,
                                    !.relationship_id = Len(S.relationships) + 1]
        appended == [S EXCEPT !.relationships = Append(@, rel_with_doc)]
    IN  IF rel.hasSource
        THEN [S |-> [appended EXCEPT !.relationship_index =
                         PutAppend(@, Lower(rel.source), rel_with_doc)],
              ok |-> TRUE]
        ELSE [S |-> appended, ok |-> FALSE]

RECURSIVE AddRelationships(_, _, _)
AddRelationships(S, rels, doc_id) ==
    IF rels = <<>> THEN [S |-> S, ok |-> TRUE]
    ELSE LET r == AddRelationship(S, Head(rels), doc_id)
         IN  IF r.ok THEN AddRelationships(r.S, Tail(rels), doc_id) ELSE r

\* add_document: the try block runs until the first exception; the handler
\* returns False and undoes nothing
add_document(S, doc_id, doc) ==
    LET r1 == AddChunks(AddMetadata(S, doc_id, doc), doc.chunks, doc_id)
        r2 == IF r1.ok THEN AddEntities(r1.S, doc.entities, doc_id) ELSE r1
        r3 == IF r2.ok THEN AddRelationships(r2.S, doc.relationships, doc_id) ELSE r2
    IN  r3

\* clear_storage without self.chunks.clear()
ClearStorageKeepsChunks(S) == [EmptyStore EXCEPT !.chunks = S.chunks]

\* ClearStatement without line 260: entities_by_type is kept
ClearStatementKeepsTypes(S, i) ==
    CASE i = 1 -> [S EXCEPT !.documents = <<>>]
      [] i = 2 -> [S EXCEPT !.chunks = <<>>]
      [] i = 3 -> [S EXCEPT !.chunk_index = <<>>]
      [] i = 4 -> [S EXCEPT !.entities = <<>>]
      [] i = 5 -> S
      [] i = 6 -> [S EXCEPT !.relationships = <<>>]
      [] i = 7 -> [S EXCEPT !.relationship_index = <<>>]

\* clear_storage, lines 256-262: the statement at line 255 + i
ClearStatement(S, i) ==
    CASE i = 1 -> [S EXCEPT !.documents = <<>>]
      [] i = 2 -> [S EXCEPT !.chunks = <<>>]
      [] i = 3 -> [S EXCEPT !.chunk_index = <<>>]
      [] i = 4 -> [S EXCEPT !.entities = <<>>]
      [] i = 5 -> [S EXCEPT !.entities_by_type = <<>>]
      [] i = 6 -> [S EXCEPT !.relationships = <<>>]
      [] i = 7 -> [S EXCEPT !.relationship_index = <<>>]

ClearStatements == 7

RECURSIVE ClearFrom(_, _)
ClearFrom(S, i) ==
    IF i > ClearStatements THEN S ELSE ClearFrom(ClearStatement(S, i), i + 1)

\* clear_storage
clear_storage(S) == ClearFrom(S, 1)

(***************************************************************************)
(* VectorStore: the read operations                                        *)
(***************************************************************************)
RECURSIVE DotFrom(_, _, _)
DotFrom(a, b, i) == IF i > Len(a) THEN 0 ELSE a[i] * b[i] + DotFrom(a, b, i + 1)

Dot(a, b) == DotFrom(a, b, 1)

\* np.linalg.norm on the vectors of the model, whose norms are integers
Norm(a) == LET n == Dot(a, a) IN CHOOSE r \in 0..n : r * r <= n /\ (r + 1) * (r + 1) > n

\* cosine_similarity without the test of the norms: the quotient 0/0 is
\* not a number, written here as a value outside [-1, 1]
CosineSimilarityNoZeroTest(vec1, vec2) ==
    IF Len(vec1) # Len(vec2) THEN 0
    ELSE LET norm_a == Norm(vec1)
             norm_b == Norm(vec2)
         IN  IF norm_a = 0 \/ norm_b = 0 THEN 0 - 2 * Scale
             ELSE (Dot(vec1, vec2) * Scale) \div (norm_a * norm_b)

\* Vectors of different lengths make np.dot raise; the handler returns 0.0.
cosine_similarity(vec1, vec2) ==
    IF Len(vec1) # Len(vec2) THEN 0
    ELSE LET norm_a == Norm(vec1)
             norm_b == Norm(vec2)
         IN  IF norm_a = 0 \/ norm_b = 0 THEN 0
             ELSE (Dot(vec1, vec2) * Scale) \div (norm_a * norm_b)

\* the test of line 157
PassesThreshold(similarity, min_similarity) == similarity >= min_similarity

\* line 152 without the test: a chunk without embedding is scored
HasEmbeddingAssumed(chunk) == TRUE

\* the test of line 152
HasEmbedding(chunk) == chunk.hasEmb

\* the chunks the loop of lines 151-166 builds a result for
Scored(S, query_embedding, min_similarity) ==
    SelectSeq(S.chunks,
              LAMBDA chunk :
                 /\ HasEmbedding(chunk)
                 /\ PassesThreshold(cosine_similarity(query_embedding, chunk.embedding),
                                    min_similarity))

ChunkResult(chunk, query_embedding) ==
    [chunk_id |-> chunk.id, idKind |-> chunk.idKind, text |-> chunk.text,
     similarity |-> cosine_similarity(query_embedding, chunk.embedding),
     document_id |-> chunk.document_id]

\* line 169 without reverse=True
SimilarityOrderAscending(results) ==
    SortDescending(results, [i \in DOMAIN results |-> 0 - results[i].similarity])

\* line 169
SimilarityOrder(results) ==
    SortDescending(results, [i \in DOMAIN results |-> results[i].similarity])

\* search_similar_chunks: chunk["id"] of a chunk that passes the threshold
\* raises KeyError when the chunk has no id, and the handler returns [].
search_similar_chunks(S, query_embedding, top_k, min_similarity) ==
    LET scored == Scored(S, query_embedding, min_similarity)
    IN  IF S.chunks = <<>> THEN <<>>
        ELSE IF \E i \in DOMAIN scored : scored[i].idKind = "missing" THEN <<>>
        ELSE
             Take(SimilarityOrder([i \in DOMAIN scored |->
                                      ChunkResult(scored[i], query_embedding)]),
                  top_k)

\* NameMatches in one direction only: the query term inside the name
NameMatchesQueryInName(query_term, entity_name_lower) ==
    Contains(query_term, entity_name_lower)

\* the test of line 196
NameMatches(query_term, entity_name_lower) ==
    Contains(query_term, entity_name_lower) \/ Contains(entity_name_lower, query_term)

EntityMatches(entity, query_terms) ==
    \E i \in DOMAIN query_terms : NameMatches(Lower(query_terms[i]), Lower(entity.name))

EntityResult(entity) ==
    [entity_id |-> entity.entity_id, name |-> entity.name, type |-> entity.type,
     confidence |-> entity.confidence, document_id |-> entity.document_id]

\* the entity types search_entities goes through, in order
SearchTypes(S, entity_types) ==
    IF entity_types # <<>> THEN entity_types
    ELSE [i \in DOMAIN S.entities_by_type |-> S.entities_by_type[i].key]

RECURSIVE EntitiesOfTypes(_, _)
EntitiesOfTypes(S, types) ==
    IF types = <<>> THEN <<>>
    ELSE (IF Head(types) \in Keys(S.entities_by_type)
          THEN Get(S.entities_by_type, Head(types)) ELSE <<>>)
         \o EntitiesOfTypes(S, Tail(types))

\* search_entities
search_entities(S, query_terms, entity_types) ==
    LET matched == SelectSeq(EntitiesOfTypes(S, SearchTypes(S, entity_types)),
                             LAMBDA entity : EntityMatches(entity, query_terms))
    IN  [i \in DOMAIN matched |-> EntityResult(matched[i])]

\* the test of lines 222-223
RelationshipInvolves(rel, entity_name_lower) ==
    \/ Contains(entity_name_lower, Lower(rel.source))
    \/ Contains(entity_name_lower, Lower(rel.target))

\* get_entity_relationships: rel["source"] of a stored relationship without
\* a source raises KeyError, and the handler returns [].
get_entity_relationships(S, entity_name) ==
    IF \E i \in DOMAIN S.relationships : ~S.relationships[i].hasSource THEN <<>>
    ELSE SelectSeq(S.relationships,
                   LAMBDA rel : RelationshipInvolves(rel, Lower(entity_name)))

\* get_stats
get_stats(S) ==
    [documents |-> Cardinality(DOMAIN S.documents),
     chunks |-> Len(S.chunks),
     entities |-> SumLen(S.entities_by_type),
     relationships |-> Len(S.relationships),
     entity_types |-> Len(S.entities_by_type)]

(***************************************************************************)
(* Retriever                                                               *)
(***************************************************************************)
\* Retriever.__init__: the weights in tenths, the threshold in Scale units
semantic_weight == 7

graph_weight == 3

max_semantic_results == 5

max_graph_results == 3

min_similarity_threshold == 100

NoRelationship == [type |-> "", source |-> <<>>, target |-> <<>>]

\* the value of final_score in a result that has no such key
NoScore == 0 - 1

\* semantic_search: the store's results, tagged
SemanticResult(r) ==
    [chunk_id |-> r.chunk_id, idKind |-> r.idKind, text |-> r.text,
     similarity |-> r.similarity, search_score |-> r.similarity,
     document_id |-> r.document_id, search_type |-> "semantic",
     related_entity |-> <<>>, hasRelationship |-> FALSE,
     relationship |-> NoRelationship, final_score |-> NoScore]

semantic_search(S, query_embedding) ==
    LET results == search_similar_chunks(S, query_embedding, max_semantic_results,
                                         min_similarity_threshold)
    IN  [i \in DOMAIN results |-> SemanticResult(results[i])]

\* RelevanceScore with the score capped at 0.9
RelevanceScoreClamped(contains_source, contains_target, rel) ==
    Min((9 * Scale) \div 10,
        (IF contains_source /\ contains_target THEN (9 * Scale) \div 10
         ELSE (6 * Scale) \div 10)
        + (rel.confidence \div 10))

\* graph_search, lines 128-135
RelevanceScore(contains_source, contains_target, rel) ==
    (IF contains_source /\ contains_target THEN (9 * Scale) \div 10
     ELSE (6 * Scale) \div 10)
    + (rel.confidence \div 10)

GraphResult(chunk, entity, rel, relevance_score) ==
    [chunk_id |-> chunk.id, idKind |-> chunk.idKind, text |-> chunk.text,
     similarity |-> relevance_score, search_score |-> relevance_score,
     document_id |-> chunk.document_id, search_type |-> "graph",
     related_entity |-> entity.name, hasRelationship |-> TRUE,
     relationship |-> [type |-> rel.type, source |-> rel.source, target |-> rel.target],
     final_score |-> NoScore]

\* AlreadySeen without the seen-set
AlreadySeenNever(chunk_id, seen_chunks) == FALSE

\* the test of line 119
AlreadySeen(chunk_id, seen_chunks) == chunk_id \in seen_chunks

\* graph_search, lines 114-155: one pass over the chunks for one
\* relationship; acc is [results, seen]
RECURSIVE ScanChunks(_, _, _, _)
ScanChunks(cs, entity, rel, acc) ==
    IF cs = <<>> THEN acc
    ELSE LET chunk == Head(cs)
             chunk_text_lower == Lower(chunk.text)
             contains_source == Contains(Lower(rel.source), chunk_text_lower)
             contains_target == Contains(Lower(rel.target), chunk_text_lower)
             next ==
                IF AlreadySeen(chunk.id, acc.seen) THEN acc
                ELSE IF contains_source \/ contains_target
                THEN [results |-> Append(acc.results,
                                    GraphResult(chunk, entity, rel,
                                        RelevanceScore(contains_source, contains_target, rel))),
                      seen |-> acc.seen \cup {chunk.id}]
                ELSE acc
         IN  ScanChunks(Tail(cs), entity, rel, next)

RECURSIVE ScanRelationships(_, _, _, _)
ScanRelationships(S, entity, rels, acc) ==
    IF rels = <<>> THEN acc
    ELSE ScanRelationships(S, entity, Tail(rels),
                           ScanChunks(S.chunks, entity, Head(rels), acc))

RECURSIVE ScanEntities(_, _, _)
ScanEntities(S, entity_results, acc) ==
    IF entity_results = <<>> THEN acc
    ELSE ScanEntities(S, Tail(entity_results),
                      ScanRelationships(S, Head(entity_results),
                          get_entity_relationships(S, Head(entity_results).name), acc))

\* GraphOrder without the sort
GraphOrderUnsorted(results) == results

\* line 158
GraphOrder(results) ==
    SortDescending(results, [i \in DOMAIN results |-> results[i].search_score])

\* Whether graph_search raises: the chunk loop runs once some matched
\* entity has a relationship, and chunk["id"] raises KeyError on a chunk
\* without id, `chunk_id in seen_chunks` TypeError on an unhashable id.
GraphSearchRaises(S, entity_results) ==
    /\ \E i \in DOMAIN entity_results :
          get_entity_relationships(S, entity_results[i].name) # <<>>
    /\ \E i \in DOMAIN S.chunks : S.chunks[i].idKind # "ok"

\* graph_search
graph_search(S, query_entities) ==
    LET entity_results == search_entities(S, query_entities, <<>>)
    IN  IF GraphSearchRaises(S, entity_results) THEN <<>>
        ELSE
             Take(GraphOrder(ScanEntities(S, entity_results,
                                          [results |-> <<>>, seen |-> {}]).results),
                  max_graph_results)

\* combine_and_rank_results, lines 176-180
WeightedSemantic(r) ==
    [r EXCEPT !.final_score = r.search_score * semantic_weight]

\* WeightedGraph with the weight of the semantic results
WeightedGraphAsSemantic(r) ==
    [r EXCEPT !.final_score = r.search_score * semantic_weight]

\* combine_and_rank_results, lines 185-187
WeightedGraph(r) ==
    [r EXCEPT !.final_score = r.search_score * graph_weight]

\* combine_and_rank_results, lines 190-196: the first entry with the chunk
\* id is boosted
Boost(all_results, r) ==
    LET k == CHOOSE i \in DOMAIN all_results :
                /\ all_results[i].chunk_id = r.chunk_id
                /\ \A j \in 1..(i - 1) : all_results[j].chunk_id # r.chunk_id
    IN  [all_results EXCEPT ![k] =
            [@ EXCEPT !.final_score = @ + r.search_score * graph_weight,
                      !.search_type = "hybrid",
                      !.hasRelationship = TRUE,
                      !.relationship = r.relationship]]

\* combine_and_rank_results, lines 183-196
RECURSIVE MergeGraph(_, _, _)
MergeGraph(all_results, seen_chunk_ids, graph_results) ==
    IF graph_results = <<>> THEN all_results
    ELSE LET r == Head(graph_results)
         IN  MergeGraph(IF r.chunk_id \notin seen_chunk_ids
                        THEN Append(all_results, WeightedGraph(r))
                        ELSE Boost(all_results, r),
                        seen_chunk_ids, Tail(graph_results))

\* FinalOrder that puts equal scores in the reverse of the merge order
FinalOrderTiesReversed(results) ==
    LET reversed == [i \in DOMAIN results |-> results[Len(results) + 1 - i]]
    IN  SortDescending(reversed, [i \in DOMAIN reversed |-> reversed[i].final_score])

\* line 199
FinalOrder(results) ==
    SortDescending(results, [i \in DOMAIN results |-> results[i].final_score])

\* Whether combine_and_rank_results raises: adding an unhashable chunk id
\* to seen_chunk_ids, or testing one against it, is a TypeError.
CombineRaises(semantic_results, graph_results) ==
    \/ \E i \in DOMAIN semantic_results : semantic_results[i].idKind = "unhashable"
    \/ \E i \in DOMAIN graph_results : graph_results[i].idKind = "unhashable"

\* combine_and_rank_results: the handler falls back to the semantic results
combine_and_rank_results(semantic_results, graph_results) ==
    IF CombineRaises(semantic_results, graph_results) THEN semantic_results
    ELSE LET seeded == [i \in DOMAIN semantic_results |->
                           WeightedSemantic(semantic_results[i])]
             seen_chunk_ids == {semantic_results[i].chunk_id : i \in DOMAIN semantic_results}
             all_results == MergeGraph(seeded, seen_chunk_ids, graph_results)
         IN  Take(FinalOrder(all_results), max_semantic_results + max_graph_results)

\* search, lines 229-234
SemanticStage(S, query_embedding) ==
    IF ~query_embedding.present THEN <<>>
    ELSE semantic_search(S, query_embedding.v)

\* search, lines 237-240
GraphStage(S, query) == graph_search(S, extract_query_entities(query))

\* search
search(S, query, query_embedding) ==
    combine_and_rank_results(SemanticStage(S, query_embedding), GraphStage(S, query))

(***************************************************************************)
(* The inputs of the model: documents as process_document hands them to    *)
(* add_document (chunks of chunk_and_embed, entities and relationships of  *)
(* extract_entities_batch), well-formed and malformed, and the queries.    *)
(***************************************************************************)
Ann == <<"A","n","n">>

Acme == <<"A","c","m","e">>

Bob == <<"B","o","b">>

AnnAtAcme == Ann \o <<" ","a","t"," ">> \o Acme

WhoIsAnn == <<"W","h","o"," ","i","s"," ">> \o Ann

BobAcme == Bob \o <<" ">> \o Acme

Chunk(id, text, embedding) ==
    [idKind |-> "ok", id |-> id, text |-> text, hasEmb |-> TRUE,
     embedding |-> embedding, document_id |-> 0]

WithoutEmbedding(chunk) == [chunk EXCEPT !.hasEmb = FALSE, !.embedding = <<>>]

WithoutId(chunk) == [chunk EXCEPT !.idKind = "missing", !.id = 0]

WithUnhashableId(chunk) == [chunk EXCEPT !.idKind = "unhashable"]

Entity(name, type) ==
    [hasName |-> TRUE, name |-> name, type |-> type, confidence |-> (8 * Scale) \div 10,
     document_id |-> 0, entity_id |-> 0]

WithoutName(entity) == [entity EXCEPT !.hasName = FALSE, !.name = <<>>]

Relationship(source, type, target, confidence) ==
    [hasSource |-> TRUE, type |-> type, source |-> source, target |-> target,
     confidence |-> confidence, document_id |-> 0, relationship_id |-> 0]

WithoutSource(rel) == [rel EXCEPT !.hasSource = FALSE, !.source = <<>>]

OfType(type, entity_list) == [key |-> type, val |-> entity_list]

AnnWorksAtAcme == Relationship(Ann, "WORKS_AT", Acme, (7 * Scale) \div 10)

BobUsesAcme == Relationship(Bob, "USES", Acme, Scale)

\* two chunks, two entity types, one relationship
DocA ==
    [chunks |-> <<Chunk(1, AnnAtAcme, <<3, 4>>), Chunk(2, Acme, <<4, 3>>)>>,
     entities |-> <<OfType("PERSON", <<Entity(Ann, "PERSON")>>),
                    OfType("ORGANIZATION", <<Entity(Acme, "ORGANIZATION")>>)>>,
     relationships |-> <<AnnWorksAtAcme>>]

\* the chunk ids of chunk_text again; an embedding equal to one of DocA's
\* and one opposite to it
DocB ==
    [chunks |-> <<Chunk(1, Bob, <<3, 4>>), Chunk(2, Lower(Ann), <<0 - 3, 0 - 4>>)>>,
     entities |-> <<OfType("PERSON", <<Entity(Bob, "PERSON")>>)>>,
     relationships |-> <<BobUsesAcme>>]

\* an embedding of another dimensionality
DocC ==
    [chunks |-> <<Chunk(1, Acme, <<5>>)>>,
     entities |-> <<>>,
     relationships |-> <<>>]

\* a chunk without embedding and one with a zero embedding
DocD ==
    [chunks |-> <<WithoutEmbedding(Chunk(1, Ann, <<>>)), Chunk(2, Bob, <<0, 0>>)>>,
     entities |-> <<OfType("ORGANIZATION", <<Entity(Lower(Acme), "ORGANIZATION")>>)>>,
     relationships |-> <<>>]

\* an entity record without a name, after a well-formed one
DocE ==
    [chunks |-> <<Chunk(1, Ann, <<4, 3>>)>>,
     entities |-> <<OfType("PERSON", <<Entity(Ann, "PERSON"),
                                       WithoutName(Entity(<<>>, "PERSON"))>>)>>,
     relationships |-> <<AnnWorksAtAcme>>]

\* a relationship record without a source, after a well-formed one
DocF ==
    [chunks |-> <<Chunk(1, Acme, <<3, 4>>)>>,
     entities |-> <<OfType("ORGANIZATION", <<Entity(Acme, "ORGANIZATION")>>)>>,
     relationships |-> <<BobUsesAcme, WithoutSource(AnnWorksAtAcme)>>]

\* a chunk without id, after a well-formed one
DocG ==
    [chunks |-> <<Chunk(1, Bob, <<4, 3>>), WithoutId(Chunk(2, Ann, <<0, 1>>))>>,
     entities |-> <<OfType("PERSON", <<Entity(Ann, "PERSON")>>)>>,
     relationships |-> <<>>]

\* a chunk whose id is unhashable
DocH ==
    [chunks |-> <<WithUnhashableId(Chunk(1, AnnAtAcme, <<3, 4>>))>>,
     entities |-> <<OfType("PERSON", <<Entity(Ann, "PERSON")>>)>>,
     relationships |-> <<AnnWorksAtAcme>>]

\* four chunks that all name the source or the target of the relationship,
\* the one that names both last
DocI ==
    [chunks |-> <<Chunk(1, Acme, <<1, 0>>), Chunk(2, Lower(Ann), <<0, 1>>),
                  Chunk(3, Ann, <<4, 3>>), Chunk(4, AnnAtAcme, <<3, 4>>)>>,
     entities |-> <<OfType("PERSON", <<Entity(Ann, "PERSON")>>)>>,
     relationships |-> <<AnnWorksAtAcme>>]

Documents == {DocA, DocB, DocC, DocD, DocE, DocF, DocG, DocH, DocI}

QueryVectors == {<<3, 4>>, <<1, 0>>, <<5>>}

NoEmbedding == [present |-> FALSE, v |-> <<>>]

QueryEmbeddings == {[present |-> TRUE, v |-> v] : v \in QueryVectors} \cup {NoEmbedding}

Str(s) == [isStr |-> TRUE, s |-> s]

NotAStr == [isStr |-> FALSE, s |-> <<>>]

Queries == {Str(WhoIsAnn), Str(Lower(Acme)), Str(BobAcme), NotAStr}

TopKs == 0..MaxTopK

MinSimilarities == {0 - Scale, 0, min_similarity_threshold, Scale}

(***************************************************************************)
(* The store used by one caller at a time: every operation is one action,  *)
(* and Return hands the result back.                                       *)
(***************************************************************************)
Idle == [op |-> "idle"]

NoThread == [pc |-> "idle"]

SetStore(S) ==
    /\ documents' = S.documents
    /\ chunks' = S.chunks
    /\ chunk_index' = S.chunk_index
    /\ entities' = S.entities
    /\ entities_by_type' = S.entities_by_type
    /\ relationships' = S.relationships
    /\ relationship_index' = S.relationship_index

Init ==
    /\ documents = <<>>
    /\ chunks = <<>>
    /\ chunk_index = <<>>
    /\ entities = <<>>
    /\ entities_by_type = <<>>
    /\ relationships = <<>>
    /\ relationship_index = <<>>
    /\ call = Idle
    /\ cleared = FALSE
    /\ writer = NoThread
    /\ reader = NoThread

\* process_document: doc_id is a fresh uuid
FreshDocId(S) == Cardinality(DOMAIN S.documents) + 1

AddDocument(doc) ==
    /\ call = Idle
    /\ Cardinality(DOMAIN documents) < MaxDocs
    /\ LET doc_id == FreshDocId(Store)
           r == add_document(Store, doc_id, doc)
       IN  /\ SetStore(r.S)
           /\ call' = [op |-> "add_document", doc_id |-> doc_id, doc |-> doc,
                       pre |-> Store, ret |-> r.ok]
    /\ cleared' = FALSE
    /\ UNCHANGED <<writer, reader>>

ClearStorage ==
    /\ call = Idle
    /\ SetStore(clear_storage(Store))
    /\ call' = [op |-> "clear_storage"]
    /\ cleared' = (cleared \/ Store # EmptyStore)
    /\ UNCHANGED <<writer, reader>>

SearchSimilarChunks(query_embedding, top_k, min_similarity) ==
    /\ call = Idle
    /\ call' = [op |-> "search_similar_chunks", query_embedding |-> query_embedding,
                top_k |-> top_k, min_similarity |-> min_similarity,
                ret |-> search_similar_chunks(Store, query_embedding, top_k, min_similarity)]
    /\ UNCHANGED <<storeVars, cleared, writer, reader>>

Search(query, query_embedding) ==
    /\ call = Idle
    /\ call' = [op |-> "search", query |-> query, query_embedding |-> query_embedding,
                ret |-> search(Store, query, query_embedding)]
    /\ UNCHANGED <<storeVars, cleared, writer, reader>>

SearchEntities(query_terms, entity_types) ==
    /\ call = Idle
    /\ call' = [op |-> "search_entities", query_terms |-> query_terms,
                entity_types |-> entity_types,
                ret |-> search_entities(Store, query_terms, entity_types)]
    /\ UNCHANGED <<storeVars, cleared, writer, reader>>

GetStats ==
    /\ call = Idle
    /\ call' = [op |-> "get_stats", ret |-> get_stats(Store)]
    /\ UNCHANGED <<storeVars, cleared, writer, reader>>

\* a call in progress (create_embedding, step by step) returns when done
Return ==
    /\ call # Idle
    /\ "pc" \in DOMAIN call => call.pc = "done"
    /\ call' = Idle
    /\ UNCHANGED <<storeVars, cleared, writer, reader>>

Next ==
    \/ \E doc \in Documents : AddDocument(doc)
    \/ ClearStorage
    \/ \E v \in QueryVectors, k \in TopKs, m \in MinSimilarities :
          SearchSimilarChunks(v, k, m)
    \/ \E q \in Queries, e \in QueryEmbeddings : Search(q, e)
    \/ \E query_terms \in {<<>>, <<Bob>>, <<Ann, Lower(Acme)>>, <<<<"a", "n">>>>,
                            <<AnnAtAcme>>, <<Ann, <<"a", "n">>>>},
          entity_types \in {<<>>, <<"PERSON">>, <<"ORGANIZATION", "PERSON">>,
                             <<"PERSON", "PERSON">>, <<"LOCATION">>} :
          SearchEntities(query_terms, entity_types)
    \/ GetStats
    \/ Return

Spec == Init /\ [][Next]_vars

(***************************************************************************)
(* Properties of the store                                                 *)
(***************************************************************************)
IsCall(op) == call.op = op

\* the stored chunk a result was built from: document ids are fresh and
\* chunk ids are unique within a document
PosInStore(r) ==
    CHOOSE p \in DOMAIN chunks :
        chunks[p].document_id = r.document_id /\ chunks[p].id = r.chunk_id

Returned(p, ret) ==
    \E i \in DOMAIN ret :
        ret[i].document_id = chunks[p].document_id /\ ret[i].chunk_id = chunks[p].id

\* C1: an AddDocument that returns false leaves the seven collections as
\* they were before the call.
C1_FailedAddChangesNothing ==
    IsCall("add_document") => (call.ret = FALSE => Store = call.pre)

\* C4: all stored chunks that carry an embedding have embeddings of the same
\* length (AddDocument rejects a document that would break this).
C4_OneEmbeddingDimension ==
    \A i, j \in DOMAIN chunks :
        chunks[i].hasEmb /\ chunks[j].hasEmb
            => Len(chunks[i].embedding) = Len(chunks[j].embedding)

\* C6: on a store with no chunks, fresh or just cleared, SearchSimilarChunks
\* and Search return the empty list, for every query and query embedding.
C6_EmptyStoreEmptyResult ==
    (IsCall("search") \/ IsCall("search_similar_chunks"))
        => (cleared \/ chunks = <<>> => call.ret = <<>>)

C6_Witness ==
    /\ IsCall("search")
    /\ cleared
    /\ call.query_embedding.present
    /\ call.query.isStr
    /\ call.ret = <<>>

\* the similarity of the stored chunk at p to the query vector of the call
SimilarityAt(p) == cosine_similarity(call.query_embedding, chunks[p].embedding)

\* the similarity scan raised: a chunk that passes the threshold has no id
ScanAborted ==
    \E p \in DOMAIN chunks :
        /\ chunks[p].hasEmb
        /\ chunks[p].idKind = "missing"
        /\ SimilarityAt(p) >= call.min_similarity

\* C7: SearchSimilarChunks returns at most topK items, each with similarity
\* >= minSimilarity, in non-increasing order of similarity; no stored chunk
\* left out is strictly more similar than a returned one, and a chunk left
\* out with similarity >= minSimilarity (the boundary included) is left out
\* by the cut to topK, or by a scan that was aborted.
C7_TopKThresholdOrder ==
    IsCall("search_similar_chunks") =>
        LET ret == call.ret
        IN  /\ Len(ret) <= call.top_k
            /\ \A i \in DOMAIN ret : ret[i].similarity >= call.min_similarity
            /\ \A i, j \in DOMAIN ret : i < j => ret[i].similarity >= ret[j].similarity
            /\ \A p \in DOMAIN chunks :
                  chunks[p].hasEmb /\ ~Returned(p, ret)
                     => /\ \A i \in DOMAIN ret : SimilarityAt(p) <= ret[i].similarity
                        /\ SimilarityAt(p) >= call.min_similarity
                              => Len(ret) = call.top_k \/ ScanAborted

C7_Witness ==
    /\ IsCall("search_similar_chunks")
    /\ call.top_k >= 1
    /\ Len(call.ret) = call.top_k
    /\ \E i \in DOMAIN call.ret : call.ret[i].similarity = call.min_similarity
    /\ \E p \in DOMAIN chunks :
          /\ chunks[p].hasEmb
          /\ ~Returned(p, call.ret)
          /\ SimilarityAt(p) >= call.min_similarity

\* C8: chunks with equal similarity are returned in insertion order, also
\* across the cut to topK: a chunk left out that ties with a returned one
\* was inserted after it.
C8_TiesInInsertionOrder ==
    IsCall("search_similar_chunks") =>
        LET ret == call.ret
        IN  /\ \A i, j \in DOMAIN ret :
                  i < j /\ ret[i].similarity = ret[j].similarity
                     => PosInStore(ret[i]) < PosInStore(ret[j])
            /\ \A p \in DOMAIN chunks, i \in DOMAIN ret :
                  /\ chunks[p].hasEmb
                  /\ ~Returned(p, ret)
                  /\ SimilarityAt(p) = ret[i].similarity
                  => PosInStore(ret[i]) < p

C8_Witness ==
    /\ IsCall("search_similar_chunks")
    /\ Len(call.ret) >= 2
    /\ call.ret[1].similarity = call.ret[2].similarity
    /\ call.ret[1].document_id # call.ret[2].document_id

\* C9: a stored chunk whose embedding has another length than the query
\* vector never appears in the result of SearchSimilarChunks.
C9_MisSizedChunkSkipped ==
    IsCall("search_similar_chunks") =>
        \A i \in DOMAIN call.ret :
            Len(chunks[PosInStore(call.ret[i])].embedding) = Len(call.query_embedding)

\* C10: a stored chunk that has no embedding never appears in the result of
\* SearchSimilarChunks, whatever minSimilarity is.
C10_NoEmbeddingSkipped ==
    IsCall("search_similar_chunks") =>
        \A p \in DOMAIN chunks : ~chunks[p].hasEmb => ~Returned(p, call.ret)

C10_Witness ==
    /\ IsCall("search_similar_chunks")
    /\ call.min_similarity <= 0
    /\ call.ret # <<>>
    /\ \E p \in DOMAIN chunks : ~chunks[p].hasEmb

(***************************************************************************)
(* Properties of Search.  Every handler of the retriever returns a list,   *)
(* so the result of search is a sequence in every case; what a fault in a  *)
(* stage leaves of the result is stated below.                             *)
(***************************************************************************)
TypesIn(ret) == {ret[i].search_type : i \in DOMAIN ret}

\* the similarity scan of the call raises
SemanticFault ==
    /\ call.query_embedding.present
    /\ \E p \in DOMAIN chunks :
          /\ chunks[p].hasEmb
          /\ chunks[p].idKind = "missing"
          /\ cosine_similarity(call.query_embedding.v, chunks[p].embedding)
                >= min_similarity_threshold

\* entity extraction of the call raises
ExtractionFault == ~call.query.isStr

\* the graph search of the call raises
GraphFault ==
    GraphSearchRaises(Store,
        search_entities(Store, extract_query_entities(call.query), <<>>))

\* the fusion of the call raises
FusionFault ==
    CombineRaises(SemanticStage(Store, call.query_embedding),
                  GraphStage(Store, call.query))

\* what C5 says of the semantic, extraction and graph stages: the faulty
\* stage contributes nothing and the other one still contributes
StageFaultsGiveEmptyStage ==
    /\ SemanticFault => TypesIn(call.ret) \subseteq {"graph"}
    /\ ExtractionFault \/ GraphFault
          => /\ TypesIn(call.ret) \subseteq {"semantic"}
             /\ Len(call.ret) = Len(SemanticStage(Store, call.query_embedding))

\* C5 as stated: a fault inside semantic search, entity extraction, graph
\* search or fusion yields an empty result for that stage while the other
\* stages still run; for fusion, whose result is the result of Search, that
\* is the empty list.
C5_EveryFaultGivesEmptyStage ==
    IsCall("search") =>
        /\ StageFaultsGiveEmptyStage
        /\ FusionFault => call.ret = <<>>

(***************************************************************************)
(* Properties of fusion and of the result of Search.  The two lists that   *)
(* fusion merges are the ones the stages of the call produce on the store. *)
(***************************************************************************)
SemanticList == SemanticStage(Store, call.query_embedding)

GraphList == GraphStage(Store, call.query)

\* C11: every entry that fusion merges is scored and labelled by where its
\* chunk id came from: only in the semantic list, similarity * Wsem and
\* "semantic"; only in the graph list, graphScore * Wgraph and "graph"; in
\* both, one single entry with the sum of the two, "hybrid" and the
\* relationship of the graph result.
C11_FusionScoresAndLabels ==
    IsCall("search") /\ ~FusionFault =>
        \A i \in DOMAIN call.ret :
            LET e == call.ret[i]
                inSem == \E s \in DOMAIN SemanticList : SemanticList[s].chunk_id = e.chunk_id
                inGraph == \E g \in DOMAIN GraphList : GraphList[g].chunk_id = e.chunk_id
            IN  /\ inSem /\ ~inGraph
                     => /\ e.final_score = e.similarity * semantic_weight
                        /\ e.search_type = "semantic"
                /\ inGraph /\ ~inSem
                     => /\ e.final_score = e.search_score * graph_weight
                        /\ e.search_type = "graph"
                /\ inSem /\ inGraph
                     => /\ \A j \in DOMAIN call.ret :
                              call.ret[j].chunk_id = e.chunk_id => j = i
                        /\ \E g \in DOMAIN GraphList :
                              /\ GraphList[g].chunk_id = e.chunk_id
                              /\ e.final_score = e.similarity * semantic_weight
                                    + GraphList[g].search_score * graph_weight
                              /\ e.relationship = GraphList[g].relationship
                        /\ e.search_type = "hybrid"

\* C12: the result of Search has no two entries with the same chunk id, on
\* every store whose documents each have chunk ids unique within the
\* document.
C12_SearchDeduplicated ==
    /\ IsCall("search")
    /\ \A p, q \in DOMAIN chunks :
          p # q /\ chunks[p].document_id = chunks[q].document_id
             => chunks[p].id # chunks[q].id
    => \A i, j \in DOMAIN call.ret : i # j => call.ret[i].chunk_id # call.ret[j].chunk_id

\* C13: a Search without query embedding returns graph results only, each
\* with final score graphScore * Wgraph (the similarity scan is not run:
\* the semantic list is empty).
C13_NoEmbeddingGraphOnly ==
    IsCall("search") /\ ~call.query_embedding.present =>
        /\ SemanticList = <<>>
        /\ Len(call.ret) = Len(GraphList)
        /\ \A i \in DOMAIN call.ret :
              /\ call.ret[i].search_type = "graph"
              /\ call.ret[i].final_score = call.ret[i].search_score * graph_weight

C13_Witness ==
    /\ IsCall("search")
    /\ ~call.query_embedding.present
    /\ Len(call.ret) >= 2

\* C14: the text of every graph result contains, in lower case, the source
\* or the target of the relationship attached to it, and its score is 0.9
\* (both contained) or 0.6 (one of them) plus a tenth of the confidence of
\* that relationship, not clamped.
C14_GraphScore ==
    IsCall("search") =>
        \A i \in DOMAIN GraphList :
            LET g == GraphList[i]
                contains_source == Contains(Lower(g.relationship.source), Lower(g.text))
                contains_target == Contains(Lower(g.relationship.target), Lower(g.text))
                base == IF contains_source /\ contains_target THEN 9 * Scale ELSE 6 * Scale
            IN  /\ contains_source \/ contains_target
                /\ \E p \in DOMAIN chunks :
                      /\ chunks[p].id = g.chunk_id
                      /\ chunks[p].document_id = g.document_id
                      /\ chunks[p].text = g.text
                /\ \E r \in DOMAIN relationships :
                      /\ relationships[r].type = g.relationship.type
                      /\ relationships[r].source = g.relationship.source
                      /\ relationships[r].target = g.relationship.target
                      /\ 10 * g.search_score = base + relationships[r].confidence

C14_Witness ==
    /\ IsCall("search")
    /\ \E i, j \in DOMAIN GraphList :
          /\ 10 * GraphList[i].search_score > 9 * Scale
          /\ 10 * GraphList[j].search_score < 9 * Scale

\* C15: GetStats after ClearStorage returns zero for documents, chunks,
\* entities, relationships and entity types, whatever AddDocument calls,
\* successful or failed, came before the clear.
C15_ClearedStatsAreZero ==
    IsCall("get_stats") /\ cleared =>
        call.ret = [documents |-> 0, chunks |-> 0, entities |-> 0,
                    relationships |-> 0, entity_types |-> 0]

C15_Witness == IsCall("get_stats") /\ cleared

\* C18: Search, SearchSimilarChunks, SearchEntities and GetStats (with the
\* GetEntityRelationships calls inside Search) leave every collection
\* of the store unchanged, and AddDocument keeps every document, chunk,
\* entity and relationship stored before it, in the lists and in the
\* indexes.
C18_OnlyAddCreatesOnlyClearDestroys ==
    [][LET Extends(old, new) ==
               /\ Len(old) <= Len(new)
               /\ \A i \in DOMAIN old : new[i] = old[i]
       IN  /\ call'.op \in {"search", "search_similar_chunks", "search_entities", "get_stats"}
                => UNCHANGED storeVars
           /\ call'.op = "add_document"
                => /\ \A d \in DOMAIN documents :
                         d \in DOMAIN documents' /\ documents'[d] = documents[d]
                   /\ Extends(chunks, chunks')
                   /\ \A k \in DOMAIN chunk_index :
                         k \in DOMAIN chunk_index' /\ chunk_index'[k] = chunk_index[k]
                   /\ \A n \in DOMAIN entities :
                         n \in DOMAIN entities' /\ Extends(entities[n], entities'[n])
                   /\ Len(entities_by_type) <= Len(entities_by_type')
                   /\ \A i \in DOMAIN entities_by_type :
                         /\ entities_by_type'[i].key = entities_by_type[i].key
                         /\ Extends(entities_by_type[i].val, entities_by_type'[i].val)
                   /\ Extends(relationships, relationships')
                   /\ \A n \in DOMAIN relationship_index :
                         /\ n \in DOMAIN relationship_index'
                         /\ Extends(relationship_index[n], relationship_index'[n])
      ]_vars

\* C19: in the graph list every chunk id occurs at most once, and the
\* entity, relationship and score of a result are those of the first pair
\* (matched entity, relationship of that entity), in iteration order, whose
\* source or target occurs in the text of the result.
C19_FirstRelationshipWins ==
    IsCall("search") =>
        LET ents == search_entities(Store, extract_query_entities(call.query), <<>>)
            Rels(i) == get_entity_relationships(Store, ents[i].name)
            Pairs == UNION {{<<i, j>> : j \in DOMAIN Rels(i)} : i \in DOMAIN ents}
            Rel(p) == Rels(p[1])[p[2]]
            InText(name, g) == Contains(Lower(name), Lower(g.text))
            Matches(p, g) == InText(Rel(p).source, g) \/ InText(Rel(p).target, g)
            Before(q, p) == q[1] < p[1] \/ (q[1] = p[1] /\ q[2] < p[2])
        IN  \A i \in DOMAIN GraphList :
                LET g == GraphList[i]
                IN  /\ \A j \in DOMAIN GraphList : GraphList[j].chunk_id = g.chunk_id => j = i
                    /\ \E p \in Pairs :
                          /\ Matches(p, g)
                          /\ \A q \in Pairs : Before(q, p) => ~Matches(q, g)
                          /\ g.related_entity = ents[p[1]].name
                          /\ g.relationship = [type |-> Rel(p).type, source |-> Rel(p).source,
                                               target |-> Rel(p).target]
                          /\ g.search_score =
                                RelevanceScore(InText(Rel(p).source, g),
                                               InText(Rel(p).target, g), Rel(p))

\* a result whose text also matches a later pair, which would score higher
C19_Witness ==
    /\ IsCall("search")
    /\ LET ents == search_entities(Store, extract_query_entities(call.query), <<>>)
           Rels(i) == get_entity_relationships(Store, ents[i].name)
           InText(name, g) == Contains(Lower(name), Lower(g.text))
       IN  \E i \in DOMAIN GraphList, e \in DOMAIN ents :
              \E j \in DOMAIN Rels(e) :
                 /\ GraphList[i].relationship.type # Rels(e)[j].type
                 /\ RelevanceScore(InText(Rels(e)[j].source, GraphList[i]),
                                   InText(Rels(e)[j].target, GraphList[i]), Rels(e)[j])
                       > GraphList[i].search_score
                 /\ InText(Rels(e)[j].source, GraphList[i])
                       \/ InText(Rels(e)[j].target, GraphList[i])

\* C20: the graph list is in non-increasing order of score and has at most
\* max_graph_results entries; it has that many when that many chunks
\* qualify, and no qualifying chunk left out scores higher than one kept.
C20_GraphListSortedAndCut ==
    IsCall("search") /\ ~GraphFault =>
        LET qualifying ==
                ScanEntities(Store,
                    search_entities(Store, extract_query_entities(call.query), <<>>),
                    [results |-> <<>>, seen |-> {}]).results
        IN  /\ \A i, j \in DOMAIN GraphList :
                  i < j => GraphList[i].search_score >= GraphList[j].search_score
            /\ Len(GraphList) = Min(Len(qualifying), max_graph_results)
            /\ \A i \in DOMAIN GraphList : \E q \in DOMAIN qualifying : qualifying[q] = GraphList[i]
            /\ \A q \in DOMAIN qualifying :
                  (\A i \in DOMAIN GraphList : GraphList[i].chunk_id # qualifying[q].chunk_id)
                     => \A i \in DOMAIN GraphList :
                           qualifying[q].search_score <= GraphList[i].search_score

\* more chunks qualify than are kept, and the best one was found last
C20_Witness ==
    /\ IsCall("search")
    /\ ~GraphFault
    /\ Len(GraphList) = max_graph_results
    /\ GraphList[1].search_score > GraphList[2].search_score
    /\ LET qualifying ==
               ScanEntities(Store,
                   search_entities(Store, extract_query_entities(call.query), <<>>),
                   [results |-> <<>>, seen |-> {}]).results
       IN  /\ Len(qualifying) > max_graph_results
           /\ qualifying[Len(qualifying)] = GraphList[1]

\* C21: every stored chunk, of whatever document, whose text contains the
\* source or the target of a relationship of a matched entity is in the
\* graph list, unless the list was cut to max_graph_results.
C21_EveryQualifyingChunkListed ==
    IsCall("search") /\ ~GraphFault =>
        LET ents == search_entities(Store, extract_query_entities(call.query), <<>>)
            Rels(e) == get_entity_relationships(Store, ents[e].name)
            InText(name, p) == Contains(Lower(name), Lower(chunks[p].text))
            Qualifies(p) ==
                \E e \in DOMAIN ents : \E j \in DOMAIN Rels(e) :
                    InText(Rels(e)[j].source, p) \/ InText(Rels(e)[j].target, p)
            Listed(p) ==
                \E i \in DOMAIN GraphList :
                    /\ GraphList[i].document_id = chunks[p].document_id
                    /\ GraphList[i].chunk_id = chunks[p].id
                    /\ GraphList[i].text = chunks[p].text
        IN  \A p \in DOMAIN chunks :
                Qualifies(p) => Listed(p) \/ Len(GraphList) = max_graph_results

\* C22: the fused list is in non-increasing order of final_score, entries
\* of equal final_score are in the order of the merge (the semantic results
\* in their order, then the graph results whose chunk id is new, in the
\* order of the graph list), and it has at most max_semantic_results +
\* max_graph_results entries.
C22_FusedOrderAndLimit ==
    IsCall("search") /\ ~FusionFault =>
        LET semantic_results == SemanticList
            graph_results == GraphList
            semantic_ids == {semantic_results[k].chunk_id : k \in DOMAIN semantic_results}
            graph_only == SelectSeq(graph_results, LAMBDA g : g.chunk_id \notin semantic_ids)
            merged == semantic_results \o graph_only
            FromGraph(r) == r.search_type = "graph"
            MergePos(r) ==
                CHOOSE k \in DOMAIN merged :
                    /\ merged[k].chunk_id = r.chunk_id
                    /\ merged[k].document_id = r.document_id
                    /\ k > Len(semantic_results) <=> FromGraph(r)
            positions == [i \in DOMAIN call.ret |-> MergePos(call.ret[i])]
        IN  /\ Len(call.ret) = Min(Len(merged), max_semantic_results + max_graph_results)
            /\ \A i \in DOMAIN call.ret :
                  \E k \in DOMAIN merged :
                      /\ merged[k].chunk_id = call.ret[i].chunk_id
                      /\ merged[k].document_id = call.ret[i].document_id
                      /\ k > Len(semantic_results) <=> FromGraph(call.ret[i])
            /\ \A i, j \in DOMAIN call.ret :
                  i < j =>
                     /\ call.ret[i].final_score >= call.ret[j].final_score
                     /\ call.ret[i].final_score = call.ret[j].final_score
                           => positions[i] < positions[j]

\* two entries of equal final_score, an entry that the sort moved above an
\* entry that was merged before it, and an entry of the graph list alone
C22_Witness ==
    /\ IsCall("search")
    /\ ~FusionFault
    /\ \E i, j \in DOMAIN call.ret :
          /\ i < j
          /\ call.ret[i].final_score = call.ret[j].final_score
    /\ \E i \in DOMAIN call.ret : call.ret[i].search_type = "graph"
    /\ LET semantic_results == SemanticList
           SemPos(r) == CHOOSE k \in DOMAIN semantic_results :
                           /\ semantic_results[k].chunk_id = r.chunk_id
                           /\ semantic_results[k].document_id = r.document_id
       IN  \E i, j \in DOMAIN call.ret :
              /\ i < j
              /\ call.ret[i].search_type = "hybrid"
              /\ call.ret[j].search_type = "semantic"
              /\ SemPos(call.ret[i]) > SemPos(call.ret[j])

\* C23 as stated: SearchEntities returns a match for a stored entity record
\* exactly if its type is searched (all types when none is given) and its
\* lowercased name contains, or is contained in, a lowercased query term;
\* and no record has more than one match in a result.
C23_EntityMatchedOnce ==
    IsCall("search_entities") =>
        LET Searched(type) ==
                call.entity_types = <<>>
                   \/ \E k \in DOMAIN call.entity_types : call.entity_types[k] = type
            Matched(e) ==
                \E k \in DOMAIN call.query_terms :
                    \/ Contains(Lower(call.query_terms[k]), Lower(e.name))
                    \/ Contains(Lower(e.name), Lower(call.query_terms[k]))
            MatchesOf(e) == {i \in DOMAIN call.ret : call.ret[i].entity_id = e.entity_id}
        IN  \A t \in DOMAIN entities_by_type : \A j \in DOMAIN entities_by_type[t].val :
                LET e == entities_by_type[t].val[j]
                IN  /\ MatchesOf(e) # {} <=> Searched(entities_by_type[t].key) /\ Matched(e)
                    /\ Cardinality(MatchesOf(e)) <= 1

\* C23 amended: a record whose type is searched and whose name matches has
\* one match for each occurrence of its type in entity_types (one when no
\* types are given), whatever the number of query terms it matches; every
\* other record has none, and every match is that of a stored record.
C23_EntityMatchedOncePerListedType ==
    IsCall("search_entities") =>
        LET Occurrences(type) ==
                IF call.entity_types = <<>> THEN 1
                ELSE Cardinality({k \in DOMAIN call.entity_types :
                                     call.entity_types[k] = type})
            Matched(e) ==
                \E k \in DOMAIN call.query_terms :
                    \/ Contains(Lower(call.query_terms[k]), Lower(e.name))
                    \/ Contains(Lower(e.name), Lower(call.query_terms[k]))
            MatchesOf(e) == {i \in DOMAIN call.ret : call.ret[i].entity_id = e.entity_id}
        IN  /\ \A t \in DOMAIN entities_by_type : \A j \in DOMAIN entities_by_type[t].val :
                  LET e == entities_by_type[t].val[j]
                  IN  Cardinality(MatchesOf(e)) =
                         IF Matched(e) THEN Occurrences(entities_by_type[t].key) ELSE 0
            /\ \A i \in DOMAIN call.ret :
                  \E t \in DOMAIN entities_by_type : \E j \in DOMAIN entities_by_type[t].val :
                      /\ entities_by_type[t].val[j].entity_id = call.ret[i].entity_id
                      /\ entities_by_type[t].val[j].name = call.ret[i].name
                      /\ entities_by_type[t].val[j].document_id = call.ret[i].document_id

\* a call with two types given and two query terms that both match the one
\* record returned, while a stored record of a searched type matches neither
C23_Witness ==
    /\ IsCall("search_entities")
    /\ call.entity_types = <<"ORGANIZATION", "PERSON">>
    /\ call.query_terms = <<Ann, <<"a", "n">>>>
    /\ Len(call.ret) = 1
    /\ call.ret[1].name = Ann
    /\ \E t \in DOMAIN entities_by_type :
          /\ entities_by_type[t].key = "ORGANIZATION"
          /\ \E j \in DOMAIN entities_by_type[t].val : entities_by_type[t].val[j].name = Acme

\* C25: in every state each record of the name index is under the key
\* lowercase(name) and is exactly one entry of the type index, each entry
\* of the type index is exactly one record of the name index, and the two
\* indexes hold the same number of records.
C25_EntityIndexesConsistent ==
    LET ByName == UNION {{<<n, i>> : i \in DOMAIN entities[n]} : n \in DOMAIN entities}
        ByType == UNION {{<<t, j>> : j \in DOMAIN entities_by_type[t].val} :
                            t \in DOMAIN entities_by_type}
        NameRecord(p) == entities[p[1]][p[2]]
        TypeRecord(q) == entities_by_type[q[1]].val[q[2]]
    IN  /\ \A p \in ByName :
              /\ p[1] = Lower(NameRecord(p).name)
              /\ Cardinality({q \in ByType : TypeRecord(q) = NameRecord(p)}) = 1
        /\ \A q \in ByType :
              Cardinality({p \in ByName : NameRecord(p) = TypeRecord(q)}) = 1
        /\ Cardinality(ByName) = Cardinality(ByType)
        /\ \A t, u \in DOMAIN entities_by_type :
              entities_by_type[t].key = entities_by_type[u].key => t = u

\* the state after an AddDocument that failed on its second entity, with
\* two records under one name and two types
C25_Witness ==
    /\ IsCall("add_document")
    /\ ~call.ret
    /\ call.doc.entities # <<>>
    /\ Len(entities_by_type) >= 2
    /\ \E n \in DOMAIN entities : Len(entities[n]) >= 2
    /\ entities # call.pre.entities

\* C28: when every stored chunk has an id as the chunker gives it (unique
\* within its document; documents have distinct ids), the chunk-id index
\* has as many entries as the chunk list, and looking up the id of a
\* stored chunk gives that chunk.
C28_ChunkIdIsGlobalKey ==
    (/\ \A p \in DOMAIN chunks : chunks[p].idKind = "ok"
     /\ \A p, q \in DOMAIN chunks :
           chunks[p].document_id = chunks[q].document_id /\ chunks[p].id = chunks[q].id
              => p = q)
    => /\ Cardinality(DOMAIN chunk_index) = Len(chunks)
       /\ \A p \in DOMAIN chunks :
             chunks[p].id \in DOMAIN chunk_index /\ chunk_index[chunks[p].id] = chunks[p]

\* C29: in every state each relationship of the list is exactly one entry
\* of the source index, under the key lowercase(source), and every entry of
\* the index is a relationship of the list.
C29_RelationshipIndexConsistent ==
    LET BySource == UNION {{<<n, k>> : k \in DOMAIN relationship_index[n]} :
                              n \in DOMAIN relationship_index}
        Indexed(q) == relationship_index[q[1]][q[2]]
    IN  /\ \A i \in DOMAIN relationships :
              /\ Cardinality({q \in BySource : Indexed(q) = relationships[i]}) = 1
              /\ \A q \in BySource :
                    Indexed(q) = relationships[i] => q[1] = Lower(relationships[i].source)
        /\ \A q \in BySource : \E i \in DOMAIN relationships : relationships[i] = Indexed(q)

(***************************************************************************)
(* The store shared by two threads, as the Streamlit sessions share the    *)
(* cached VectorStore: a writer (add_document or clear_storage) and a      *)
(* reader (get_stats or search).  Nothing locks the store.  A writer step  *)
(* is one phase of add_document or one statement of clear_storage; search  *)
(* reads the store once for the semantic stage and once for the graph      *)
(* stage.  The reader records which writer operation its call overlapped,  *)
(* with the store before that operation and after it.                      *)
(***************************************************************************)
ConcurrentDocuments == {DocA, DocB}

ConcurrentQueries == {Str(WhoIsAnn), Str(BobAcme)}

ConcurrentEmbeddings == {[present |-> TRUE, v |-> <<1, 0>>], NoEmbedding}

Adding == {"chunks", "entities", "relationships"}

NoOverlap == [kind |-> "none", before |-> EmptyStore, after |-> EmptyStore]

\* the overlap a reader starts with, given the writer's position
OverlapAtStart ==
    IF writer.pc \in Adding
    THEN [kind |-> "add", before |-> writer.pre,
          after |-> add_document(writer.pre, writer.doc_id, writer.doc).S]
    ELSE IF writer.pc = "clear"
    THEN [kind |-> "clear", before |-> writer.pre, after |-> EmptyStore]
    ELSE NoOverlap

\* the reader's overlap once a writer operation of this kind begins
ReaderMeets(kind, after) ==
    IF reader.pc = "graph"
    THEN [reader EXCEPT !.overlap =
             IF @.kind = "none"
             THEN [kind |-> kind, before |-> Store, after |-> after]
             ELSE [@ EXCEPT !.kind = "mixed"]]
    ELSE reader

\* add_document, lines 43-54
WriterAddBegin(doc) ==
    /\ writer.pc = "idle"
    /\ Cardinality(DOMAIN documents) < MaxDocs
    /\ LET doc_id == FreshDocId(Store)
       IN  /\ SetStore(AddMetadata(Store, doc_id, doc))
           /\ writer' = [pc |-> "chunks", doc_id |-> doc_id, doc |-> doc, pre |-> Store]
           /\ reader' = ReaderMeets("add", add_document(Store, doc_id, doc).S)
    /\ UNCHANGED <<call, cleared>>

\* add_document, lines 57-66
WriterAddChunks ==
    /\ writer.pc = "chunks"
    /\ LET r == AddChunks(Store, writer.doc.chunks, writer.doc_id)
       IN  /\ SetStore(r.S)
           /\ writer' = IF r.ok THEN [writer EXCEPT !.pc = "entities"] ELSE NoThread
    /\ UNCHANGED <<call, cleared, reader>>

\* add_document, line 69
WriterAddEntities ==
    /\ writer.pc = "entities"
    /\ LET r == AddEntities(Store, writer.doc.entities, writer.doc_id)
       IN  /\ SetStore(r.S)
           /\ writer' = IF r.ok THEN [writer EXCEPT !.pc = "relationships"] ELSE NoThread
    /\ UNCHANGED <<call, cleared, reader>>

\* add_document, lines 72-76
WriterAddRelationships ==
    /\ writer.pc = "relationships"
    /\ SetStore(AddRelationships(Store, writer.doc.relationships, writer.doc_id).S)
    /\ writer' = NoThread
    /\ UNCHANGED <<call, cleared, reader>>

\* clear_storage, line 256
WriterClearBegin ==
    /\ writer.pc = "idle"
    /\ Store # EmptyStore
    /\ SetStore(ClearStatement(Store, 1))
    /\ writer' = [pc |-> "clear", i |-> 2, pre |-> Store]
    /\ reader' = ReaderMeets("clear", EmptyStore)
    /\ UNCHANGED <<call, cleared>>

\* clear_storage, lines 257-262
WriterClearStep ==
    /\ writer.pc = "clear"
    /\ SetStore(ClearStatement(Store, writer.i))
    /\ writer' = IF writer.i = ClearStatements THEN NoThread
                 ELSE [writer EXCEPT !.i = @ + 1]
    /\ UNCHANGED <<call, cleared, reader>>

\* get_stats
ReaderGetStats ==
    /\ reader.pc = "idle"
    /\ reader' = [pc |-> "done", op |-> "get_stats", ret |-> get_stats(Store),
                  overlap |-> OverlapAtStart]
    /\ UNCHANGED <<storeVars, call, cleared, writer>>

\* search, lines 229-234
ReaderSearchSemantic(query, query_embedding) ==
    /\ reader.pc = "idle"
    /\ reader' = [pc |-> "graph", op |-> "search", query |-> query,
                  query_embedding |-> query_embedding,
                  ret |-> SemanticStage(Store, query_embedding),
                  overlap |-> OverlapAtStart]
    /\ UNCHANGED <<storeVars, call, cleared, writer>>

\* search, lines 237-251
ReaderSearchGraph ==
    /\ reader.pc = "graph"
    /\ reader' = [reader EXCEPT
                     !.pc = "done",
                     !.ret = combine_and_rank_results(@, GraphStage(Store, reader.query))]
    /\ UNCHANGED <<storeVars, call, cleared, writer>>

ReaderReturn ==
    /\ reader.pc = "done"
    /\ reader' = NoThread
    /\ UNCHANGED <<storeVars, call, cleared, writer>>

NextConcurrent ==
    \/ \E doc \in ConcurrentDocuments : WriterAddBegin(doc)
    \/ WriterAddChunks
    \/ WriterAddEntities
    \/ WriterAddRelationships
    \/ WriterClearBegin
    \/ WriterClearStep
    \/ ReaderGetStats
    \/ \E q \in ConcurrentQueries, e \in ConcurrentEmbeddings : ReaderSearchSemantic(q, e)
    \/ ReaderSearchGraph
    \/ ReaderReturn

SpecConcurrent == Init /\ [][NextConcurrent]_vars

\* what the reader's call returns when it runs alone on the store S
ReadAlone(S) ==
    IF reader.op = "get_stats" THEN get_stats(S)
    ELSE search(S, reader.query, reader.query_embedding)

\* C2: a reader that runs while AddDocument inserts a document sees none of
\* the document or all of it: its result is the one it would get on the
\* store before the insertion or on the store after it.
C2_ReaderSeesWholeDocuments ==
    reader.pc = "done" /\ reader.overlap.kind = "add"
        => \/ reader.ret = ReadAlone(reader.overlap.before)
           \/ reader.ret = ReadAlone(reader.overlap.after)

\* C3: a Search that overlaps a ClearStorage computes its result entirely on
\* the store as it was before the clear or entirely on the empty store.
C3_SearchSeesClearAtomically ==
    reader.pc = "done" /\ reader.op = "search" /\ reader.overlap.kind = "clear"
        => \/ reader.ret = ReadAlone(reader.overlap.before)
           \/ reader.ret = ReadAlone(EmptyStore)

(***************************************************************************)
(* The embedder (chunk_and_embed) and cosine_similarity called on their    *)
(* own.  The embedding service is an input: failures[i] is the number of   *)
(* calls for chunk i that fail before one succeeds, and order is the order *)
(* in which the worker threads of a batch complete.                        *)
(***************************************************************************)
MaxChunks == 3

max_retries == 2

batch_size == 5

\* the largest configured max_retries of the step model
MaxRetries == 3

\* retry_delay, in tenths of a second
retry_delay == 5

\* create_embedding with a single attempt
CreateEmbeddingOneAttempt(text, failures) ==
    [raised |-> failures > 0, calls |-> 1, embedding |-> <<Len(text), 0>>]

\* create_embedding: the loop over the attempts, from attempt 0
create_embedding(text, failures) ==
    LET RECURSIVE Attempt(_, _)
        Attempt(attempt, left) ==
            IF left = 0
            THEN [raised |-> FALSE, calls |-> attempt + 1, embedding |-> <<Len(text), 0>>]
            ELSE IF attempt < max_retries - 1 THEN Attempt(attempt + 1, left - 1)
            ELSE [raised |-> TRUE, calls |-> attempt + 1, embedding |-> <<>>]
    IN  Attempt(0, failures)

\* the completion orders of the futures: a permutation of the chunks that
\* keeps the batches apart
CompletionOrders(n) ==
    {order \in [1..n -> 1..n] :
        /\ \A i, j \in 1..n : i # j => order[i] # order[j]
        /\ \A i, j \in 1..n :
              i < j => (order[i] - 1) \div batch_size <= (order[j] - 1) \div batch_size}

\* embed_chunks_batch: the chunks whose future has a result, as they complete
embed_chunks_batch(chunks_in, failures, order) ==
    LET Embedded(i) == ~create_embedding(chunks_in[i].text, failures[i]).raised
        completed == SelectSeq(order, Embedded)
    IN  [k \in DOMAIN completed |->
            [chunks_in[completed[k]] EXCEPT
                !.hasEmb = TRUE,
                !.embedding = create_embedding(chunks_in[completed[k]].text,
                                               failures[completed[k]]).embedding]]

\* chunk_and_embed on a text that chunk_text splits into chunks_in
chunk_and_embed(chunks_in, failures, order) ==
    IF chunks_in = <<>> THEN [raised |-> TRUE, ret |-> <<>>]
    ELSE LET embedded_chunks == embed_chunks_batch(chunks_in, failures, order)
         IN  IF embedded_chunks = <<>> THEN [raised |-> TRUE, ret |-> <<>>]
             ELSE [raised |-> FALSE, ret |-> embedded_chunks]

\* chunk_text: n chunks, numbered in the order of the text
chunk_text(n) ==
    [i \in 1..n |-> WithoutEmbedding(Chunk(i, IF i % 2 = 1 THEN Ann ELSE AnnAtAcme, <<>>))]

ChunkAndEmbed(n, failures, order) ==
    /\ call = Idle
    /\ LET r == chunk_and_embed(chunk_text(n), failures, order)
       IN  call' = [op |-> "chunk_and_embed", chunks |-> chunk_text(n),
                    failures |-> failures, order |-> order,
                    raised |-> r.raised, ret |-> r.ret]
    /\ UNCHANGED <<storeVars, cleared, writer, reader>>

CosineSimilarity(vec1, vec2) ==
    /\ call = Idle
    /\ call' = [op |-> "cosine_similarity", vec1 |-> vec1, vec2 |-> vec2,
                ret |-> cosine_similarity(vec1, vec2)]
    /\ UNCHANGED <<storeVars, cleared, writer, reader>>

ExtractQueryEntities(query) ==
    /\ call = Idle
    /\ call' = [op |-> "extract_query_entities", query |-> query,
                ret |-> extract_query_entities(query)]
    /\ UNCHANGED <<storeVars, cleared, writer, reader>>

\* create_embedding step by step.  The call record holds the configured
\* max_retries, the loop variable attempt, the outcomes of the service
\* calls made, the delays slept and the number of the attempt whose
\* error is current.
CreateEmbeddingBegin(text, retries) ==
    /\ call = Idle
    /\ call' = [op |-> "create_embedding", text |-> text, max_retries |-> retries,
                pc |-> "call", attempt |-> 0, outcomes |-> <<>>, slept |-> <<>>,
                error |-> 0, raised |-> FALSE, ret |-> <<>>]
    /\ UNCHANGED <<storeVars, cleared, writer, reader>>

\* BackoffDelay without the doubling
BackoffDelayConstant(attempt) == retry_delay

\* the delay of line 123, in tenths of a second
BackoffDelay(attempt) == retry_delay * (2 ^ attempt)

\* lines 107-127: one call of the embedding service; it returns (ok) or
\* raises, and the handler sleeps or re-raises
EmbedAttempt(ok) ==
    /\ IsCall("create_embedding")
    /\ call.pc = "call"
    /\ call' = IF ok
               THEN [call EXCEPT !.outcomes = Append(@, TRUE), !.pc = "done",
                                 !.ret = <<Len(call.text), 0>>]
               ELSE IF call.attempt < call.max_retries - 1
               THEN [call EXCEPT !.outcomes = Append(@, FALSE), !.pc = "sleep",
                                 !.error = call.attempt + 1]
               ELSE [call EXCEPT !.outcomes = Append(@, FALSE), !.pc = "done",
                                 !.error = call.attempt + 1, !.raised = TRUE]
    /\ UNCHANGED <<storeVars, cleared, writer, reader>>

\* lines 123-125 and the next iteration of the loop
RetrySleep ==
    /\ IsCall("create_embedding")
    /\ call.pc = "sleep"
    /\ call' = [call EXCEPT !.slept = Append(@, BackoffDelay(call.attempt)),
                            !.attempt = @ + 1, !.pc = "call"]
    /\ UNCHANGED <<storeVars, cleared, writer, reader>>

NextFunctions ==
    \/ \E n \in 0..MaxChunks :
          \E failures \in [1..n -> 0..max_retries], order \in CompletionOrders(n) :
             ChunkAndEmbed(n, failures, order)
    \/ \E vec1, vec2 \in QueryVectors \cup {<<>>, <<0>>, <<0, 0>>, <<0 - 3, 0 - 4>>} :
          CosineSimilarity(vec1, vec2)
    \/ \E query \in Queries \cup
                     {Str(<<"W","h","e","r","e"," ","i","s"," ">> \o Lower(Acme)),
                      Str(<<"A","l"," ","4","2">>),
                      Str(Lower(Ann) \o <<" ">> \o Ann \o <<" ">> \o BobAcme \o <<" ">> \o Lower(Bob)),
                      Str(<<"4","2"," ","o","f"," ">> \o Lower(Acme)),
                      Str(<<>>)} :
          ExtractQueryEntities(query)
    \/ \E text \in {Ann, Acme, AnnAtAcme}, retries \in 1..MaxRetries :
          CreateEmbeddingBegin(text, retries)
    \/ \E ok \in BOOLEAN : EmbedAttempt(ok)
    \/ RetrySleep
    \/ Return

SpecFunctions == Init /\ [][NextFunctions]_vars

\* every service call returns or raises, and every sleep ends
SpecFunctionsFair ==
    /\ SpecFunctions
    /\ WF_vars(\E ok \in BOOLEAN : EmbedAttempt(ok))
    /\ WF_vars(RetrySleep)

\* C16: cosine_similarity returns exactly 0 when one of its vectors has
\* zero magnitude (all components 0), whatever the other vector is.
C16_ZeroVectorSimilarityZero ==
    IsCall("cosine_similarity") =>
        ((\A i \in DOMAIN call.vec1 : call.vec1[i] = 0)
            \/ (\A i \in DOMAIN call.vec2 : call.vec2[i] = 0)
         => call.ret = 0)

C16_Witness ==
    /\ IsCall("cosine_similarity")
    /\ call.vec1 = <<0, 0>>
    /\ call.vec2 = <<3, 4>>
    /\ call.ret = 0

\* C17 as stated: for any set of chunks whose embedding calls fail on every
\* attempt, those chunks are left out, every other chunk is returned with
\* its embedding, and the ingestion does not fail.
C17_DroppedChunksNeverFail ==
    IsCall("chunk_and_embed") /\ call.chunks # <<>> =>
        LET embeddable == {i \in DOMAIN call.chunks : call.failures[i] < max_retries}
        IN  /\ ~call.raised
            /\ {call.ret[k].id : k \in DOMAIN call.ret}
                  = {call.chunks[i].id : i \in embeddable}
            /\ Len(call.ret) = Cardinality(embeddable)
            /\ \A k \in DOMAIN call.ret : call.ret[k].hasEmb /\ call.ret[k].embedding # <<>>

\* C17 amended: as stated when at least one chunk can be embedded; when the
\* embedding calls of all chunks fail on every attempt, chunk_and_embed
\* raises and the ingestion fails.
C17_DroppedChunksFailOnlyIfAll ==
    IsCall("chunk_and_embed") /\ call.chunks # <<>> =>
        LET embeddable == {i \in DOMAIN call.chunks : call.failures[i] < max_retries}
        IN  IF embeddable = {} THEN call.raised /\ call.ret = <<>>
            ELSE /\ ~call.raised
                 /\ {call.ret[k].id : k \in DOMAIN call.ret}
                       = {call.chunks[i].id : i \in embeddable}
                 /\ Len(call.ret) = Cardinality(embeddable)
                 /\ \A k \in DOMAIN call.ret :
                       call.ret[k].hasEmb /\ call.ret[k].embedding # <<>>

C17_Witness ==
    /\ IsCall("chunk_and_embed")
    /\ ~call.raised
    /\ \E i \in DOMAIN call.chunks : call.failures[i] = max_retries
    /\ \E i \in DOMAIN call.chunks : call.failures[i] = max_retries - 1

\* C24: no candidate returned by extract_query_entities is a stop word, has
\* length 2 or less, or is a number, also for a word written with an
\* initial capital in the query.
C24_NoStopShortNumeric ==
    IsCall("extract_query_entities") =>
        \A i \in DOMAIN call.ret :
            /\ call.ret[i] \notin stop_words
            /\ Len(call.ret[i]) > 2
            /\ \E k \in DOMAIN call.ret[i] : call.ret[i][k] \notin DigitChars

\* C27: the list returned by extract_query_entities has no candidate twice,
\* holds exactly the candidates of the concatenation (the kept words of the
\* lowercased query, then the lowercased capitalized runs), in the order of
\* their first occurrence there, and is the same for the same query.
C27_UniqueInFirstOccurrenceOrder ==
    IsCall("extract_query_entities") /\ call.query.isStr =>
        LET caps == capitalized_words(call.query.s)
            concatenation ==
                SelectSeq(WordTokens(Lower(call.query.s)), KeepsWord)
                   \o [k \in DOMAIN caps |-> Lower(caps[k])]
            First(c) == CHOOSE k \in DOMAIN concatenation :
                           /\ concatenation[k] = c
                           /\ \A m \in 1..(k - 1) : concatenation[m] # c
        IN  /\ \A i, j \in DOMAIN call.ret : call.ret[i] = call.ret[j] => i = j
            /\ {call.ret[i] : i \in DOMAIN call.ret}
                  = {concatenation[k] : k \in DOMAIN concatenation}
            /\ \A i, j \in DOMAIN call.ret :
                  i < j => First(call.ret[i]) < First(call.ret[j])
            /\ call.ret = extract_query_entities(call.query)

\* a query in which a word occurs twice and again as a capitalized word,
\* with a capitalized run of two words
C27_Witness ==
    /\ IsCall("extract_query_entities")
    /\ call.query.isStr
    /\ Len(WordTokens(Lower(call.query.s))) = 5
    /\ call.ret = <<Lower(Ann), Lower(Bob), Lower(Acme), Lower(Ann \o <<" ">> \o BobAcme)>>

\* C26: create_embedding calls the service at most max_retries times, every
\* call before the last one made has failed, the delay slept after the
\* failed attempt k (from 0) is retry_delay * 2^k, a successful call ends
\* it with that embedding, the failure of attempt max_retries - 1 ends it
\* raising that error, and every call of create_embedding ends.
C26_BoundedRetryWithBackoff ==
    /\ [](IsCall("create_embedding") =>
             LET made == Len(call.outcomes)
             IN  /\ made <= call.max_retries
                 /\ \A k \in 1..(made - 1) : ~call.outcomes[k]
                 /\ \A k \in DOMAIN call.slept : call.slept[k] = retry_delay * (2 ^ (k - 1))
                 /\ Len(call.slept) = IF call.pc = "call" THEN made ELSE made - 1
                 /\ call.pc = "done" /\ ~call.raised
                       => /\ call.outcomes[made]
                          /\ call.ret = <<Len(call.text), 0>>
                 /\ call.pc = "done" /\ call.raised
                       => /\ made = call.max_retries
                          /\ ~call.outcomes[made]
                          /\ call.error = call.max_retries
                          /\ call.ret = <<>>
                 /\ call.raised => call.pc = "done"
                 /\ call.pc = "done" => call.raised \/ call.outcomes[made])
    /\ (IsCall("create_embedding") ~> (IsCall("create_embedding") /\ call.pc = "done"))

\* a call that succeeded on its third attempt, after delays of 0.5 s and 1 s
C26_Witness ==
    /\ IsCall("create_embedding")
    /\ call.pc = "done"
    /\ ~call.raised
    /\ call.outcomes = <<FALSE, FALSE, TRUE>>
    /\ call.slept = <<retry_delay, 2 * retry_delay>>

\* C30: whatever order the worker threads finish in, the chunks returned
\* by the batch embedding are in the relative order of the input list.
C30_BatchOrderPreserved ==
    IsCall("chunk_and_embed") /\ ~call.raised =>
        LET InputPos(c) == CHOOSE i \in DOMAIN call.chunks : call.chunks[i].id = c.id
        IN  \A j, k \in DOMAIN call.ret :
                j < k => InputPos(call.ret[j]) < InputPos(call.ret[k])

====
